---- MODULE Spec2Model ----
(***************************************************************************)
(* Model of garchetype's git repository state and synchronisation core:    *)
(*   - internal/gitstat: execGit, parseDescription, Get                    *)
(*   - main.go: setSource, run (add / list / environment), addFeature      *)
(* Text is modelled as sequences: a command's output is a sequence of      *)
(* characters, an error message a sequence of words.                       *)
(***************************************************************************)
EXTENDS Integers, Sequences, FiniteSets, TLC

VARIABLES
    pc,        \* position of the driver of the specification at hand
    cmd,       \* sub-command of the invocation (run)
    cfg,       \* Config after flag parsing
    local,     \* the source directory on disk
    calls,     \* primitives and steps executed so far, in order
    stdout,    \* lines written to stdout
    err,       \* error returned by run
    sync1,     \* first setSource call: its inputs and what it returned
    sync2,     \* second setSource call
    probeIn,   \* what each git primitive of Get would answer
    probeOut,  \* what Get returned
    parseIn,   \* describe line handed to parseDescription, with its parts
    parseOut   \* what parseDescription returned

vars == <<pc, cmd, cfg, local, calls, stdout, err, sync1, sync2,
          probeIn, probeOut, parseIn, parseOut>>

-----------------------------------------------------------------------------
(* Bounds of the model *)

MaxTag == 2
MaxDigits == 2
MaxHex == 2
MaxOut == 2
MaxVer == 2

-----------------------------------------------------------------------------
(* Text helpers *)

SetMin(S) == CHOOSE x \in S : \A y \in S : x <= y
SetMax(S) == CHOOSE x \in S : \A y \in S : x >= y

\* All sequences over A of length lo..hi
Strs(A, lo, hi) == UNION {[1..k -> A] : k \in lo..hi}

\* strings.Contains on word sequences: needle occurs contiguously in s
Contains(s, needle) ==
    \E i \in 0..(Len(s) - Len(needle)) :
        \A k \in 1..Len(needle) : s[i + k] = needle[k]

\* white space as unicode.IsSpace sees it (the members that matter here)
Space == {"SP", "LF", "CR", "TAB"}

\* bytes.TrimSpace: leading and trailing white space removed
TrimSpace(s) ==
    LET keep == {i \in 1..Len(s) : s[i] \notin Space}
    IN  IF keep = {} THEN <<>> ELSE SubSeq(s, SetMin(keep), SetMax(keep))

-----------------------------------------------------------------------------
(* Errors: the message (words) and the chain errors.Is / Unwrap walks,      *)
(* outermost first.                                                         *)

NoError == [msg |-> <<>>, chain |-> <<>>]

errorsNew(words, id) == [msg |-> words, chain |-> <<id>>]

\* fmt.Errorf(prefix + ": %w", e)
Errorf(prefix, id, e) == [msg |-> prefix \o e.msg, chain |-> <<id>> \o e.chain]

errorsIs(e, id) == \E i \in 1..Len(e.chain) : e.chain[i] = id

errEmptyOutput == errorsNew(<<"empty", "output">>, "errEmptyOutput")

\* *exec.ExitError (or a start failure) of the git primitive prim
ExecError(prim) == errorsNew(<<"exit", "status", "128">>, "exec:" \o prim)

-----------------------------------------------------------------------------
(* internal/gitstat *)

\* One git primitive's answer: cmd.Output() failed or not, and its stdout
ExecResult(fail, out) == [fail |-> fail, out |-> out]

execGit_EmptyOk(prim, r) ==
    IF r.fail
    THEN [out |-> r.out, err |-> ExecError(prim)]
    ELSE [out |-> TrimSpace(r.out), err |-> NoError]

execGit_NoTrim(prim, r) ==
    IF r.fail
    THEN [out |-> r.out, err |-> ExecError(prim)]
    ELSE IF Len(r.out) = 0
         THEN [out |-> <<>>, err |-> errEmptyOutput]
         ELSE [out |-> r.out, err |-> NoError]

execGit(prim, r) ==
    IF r.fail
    THEN [out |-> r.out, err |-> ExecError(prim)]
    ELSE LET t == TrimSpace(r.out)
         IN  IF Len(t) = 0
             THEN [out |-> <<>>, err |-> errEmptyOutput]
             ELSE [out |-> t, err |-> NoError]

Digit == {"0", "1", "2", "3", "4", "5", "6", "7", "8", "9"}

DigitVal(c) ==
    CASE c = "0" -> 0 [] c = "1" -> 1 [] c = "2" -> 2 [] c = "3" -> 3
      [] c = "4" -> 4 [] c = "5" -> 5 [] c = "6" -> 6 [] c = "7" -> 7
      [] c = "8" -> 8 [] c = "9" -> 9

\* the class [0-9,a-f] of the third group
reHexClass_NoDigits == {",", "a", "b", "c", "d", "e", "f"}
reHexClass == Digit \cup {",", "a", "b", "c", "d", "e", "f"}

AllIn(s, lo, hi, S) == \A k \in lo..hi : s[k] \in S

\* positions <<i, j>> of the two separators at which
\* ^(.*)-(\d+)-g([0-9,a-f]+)$ matches s: s[i] = "-", digits, s[j] = "-", "g", hex
reSplits(s) ==
    {ij \in (1..Len(s)) \X (1..Len(s)) :
        LET i == ij[1]
            j == ij[2]
        IN  /\ s[i] = "-"
            /\ j > i + 1
            /\ AllIn(s, i + 1, j - 1, Digit)
            /\ s[j] = "-"
            /\ j + 2 <= Len(s)
            /\ s[j + 1] = "g"
            /\ AllIn(s, j + 2, Len(s), reHexClass)
            /\ \A k \in 1..(i - 1) : s[k] # "LF"}

\* re.FindStringSubmatch: <<>> when there is no match, else the whole match
\* and the three groups; (.*) is greedy, so the first group is the longest
FindStringSubmatch(s) ==
    IF reSplits(s) = {}
    THEN <<>>
    ELSE LET i == SetMax({ij[1] : ij \in reSplits(s)})
             j == CHOOSE j \in 1..Len(s) : <<i, j>> \in reSplits(s)
         IN  <<s, SubSeq(s, 1, i - 1), SubSeq(s, i + 1, j - 1),
               SubSeq(s, j + 2, Len(s))>>

\* math.MaxInt64, the largest value strconv.Atoi returns
MaxIntDigits == <<"9", "2", "2", "3", "3", "7", "2", "0", "3", "6",
                  "8", "5", "4", "7", "7", "5", "8", "0", "7">>

StripZeros(d) ==
    LET nz == {i \in 1..Len(d) : d[i] # "0"}
    IN  IF nz = {} THEN <<>> ELSE SubSeq(d, SetMin(nz), Len(d))

\* a > b for digit strings of equal length
DigitsGreater(a, b) ==
    \E i \in 1..Len(a) :
        /\ DigitVal(a[i]) > DigitVal(b[i])
        /\ \A k \in 1..(i - 1) : a[k] = b[k]

RECURSIVE DigitsValue(_)
DigitsValue(d) ==
    IF Len(d) = 0 THEN 0
    ELSE 10 * DigitsValue(SubSeq(d, 1, Len(d) - 1)) + DigitVal(d[Len(d)])

\* strconv.Atoi on a non-empty string of digits
Atoi(d) ==
    LET t == StripZeros(d)
    IN  IF \/ Len(t) > Len(MaxIntDigits)
           \/ (Len(t) = Len(MaxIntDigits) /\ DigitsGreater(t, MaxIntDigits))
        THEN [n |-> 0, err |-> errorsNew(<<"value", "out", "of", "range">>,
                                         "strconv.ErrRange")]
        ELSE [n |-> DigitsValue(t), err |-> NoError]

ZeroDescription == [Tag |-> <<>>, AdditionalCommits |-> 0, ShortHash |-> <<>>]

parseDescription(s) ==
    LET parts == FindStringSubmatch(s)
    IN  IF Len(parts) # 4
        THEN [ok |-> FALSE, d |-> ZeroDescription,
              err |-> errorsNew(<<"failed", "to", "parse", "git", "describe",
                                  "result">>, "parse")]
        ELSE LET a == Atoi(parts[3])
             IN  IF a.err # NoError
                 THEN [ok |-> FALSE, d |-> ZeroDescription, err |-> a.err]
                 ELSE [ok |-> TRUE,
                       d |-> [Tag |-> parts[2], AdditionalCommits |-> a.n,
                              ShortHash |-> parts[4]],
                       err |-> NoError]

ZeroStatus ==
    [Branch |-> <<>>, Description |-> ZeroDescription, Hash |-> <<>>,
     ShortHash |-> <<>>, AuthorDate |-> <<>>, Dirty |-> FALSE]

StatusPrefix == <<"git", "status", "failed:">>

\* what Get hands back through its deferred wrapper; has = FALSE is a nil *Status
GetReturn(has, s, e, cs) ==
    [has |-> has, status |-> s, calls |-> cs,
     err |-> IF e # NoError THEN Errorf(StatusPrefix, "wrap:gitstat", e) ELSE e]

\* Dirty as Get computes it from the status query's execGit result
DirtyOf(o) == ~(o = <<>> \/ o = <<"LF">> \/ o = <<"CR", "LF">>)

\* error Get returns when the work-tree check fails
NotInsideError_Passthrough(prim) == ExecError(prim)
NotInsideError(prim) ==
    errorsNew(<<"not", "inside", "a", "git", "repository">>, "new:not inside")

\* what Get returns when the describe primitive fails
DescribeFailed_Propagate(s, e, cs) == GetReturn(FALSE, ZeroStatus, e, cs)
DescribeFailed(s, e, cs) == GetReturn(TRUE, s, NoError, cs)

\* Get, given what each primitive answers (p)
Get(p) ==
    LET c1 == <<"Abs">>
        c2 == Append(c1, "is-inside-work-tree")
        c3 == Append(c2, "branch")
        c4 == Append(c3, "rev-parse")
        c5 == Append(c4, "rev-parse-short")
        c6 == Append(c5, "log")
        c7 == Append(c6, "status")
        c8 == Append(c7, "describe")
        br == execGit("branch", p.branch)
        ha == execGit("rev-parse", p.hash)
        sh == execGit("rev-parse-short", p.short)
        da == execGit("log", p.date)
        st == execGit("status", p.status)
        de == execGit("describe", p.describe)
        s3 == [ZeroStatus EXCEPT !.Branch = IF br.err # NoError THEN <<>> ELSE br.out]
        s4 == [s3 EXCEPT !.Hash = ha.out]
        s5 == [s4 EXCEPT !.ShortHash = sh.out]
        s6 == [s5 EXCEPT !.AuthorDate = da.out]
        s7 == [s6 EXCEPT !.Dirty = DirtyOf(st.out)]
        pd == parseDescription(de.out)
    IN  IF ~p.abs
        THEN GetReturn(FALSE, ZeroStatus, errorsNew(<<"getwd:", "no", "such", "file">>, "abs"), c1)
        ELSE IF ~p.inside
        THEN GetReturn(FALSE, ZeroStatus, NotInsideError("is-inside-work-tree"), c2)
        ELSE IF ha.err # NoError THEN GetReturn(FALSE, ZeroStatus, ha.err, c4)
        ELSE IF sh.err # NoError THEN GetReturn(FALSE, ZeroStatus, sh.err, c5)
        ELSE IF da.err # NoError THEN GetReturn(FALSE, ZeroStatus, da.err, c6)
        ELSE IF st.err # NoError /\ ~errorsIs(st.err, "errEmptyOutput")
        THEN GetReturn(FALSE, ZeroStatus, st.err, c7)
        ELSE IF de.err # NoError THEN DescribeFailed(s7, de.err, c8)
        ELSE IF pd.err # NoError THEN GetReturn(TRUE, s7, pd.err, c8)
        ELSE GetReturn(TRUE, [s7 EXCEPT !.Description = pd.d], NoError, c8)

-----------------------------------------------------------------------------
(* main.go: setSource, over the git library's primitives *)

SshURL == "git@host:archetypes.git"
HttpsURL == "https://host/archetypes.git"
Urls == {"", SshURL, HttpsURL}

Transport(url) == IF url = SshURL THEN "ssh" ELSE "https"

\* how the remote answers: reachable, host name not resolved, or refused
NetModes == {"up", "dnsfail", "denied"}

\* what git prints when the host name of the remote cannot be resolved
ResolveMsg(transport) ==
    IF transport = "ssh"
    THEN <<"exit", "status", "128", "-", "ssh:", "Could", "not", "resolve",
           "hostname", "host:", "Name", "or", "service", "not", "known">>
    ELSE <<"exit", "status", "128", "-", "fatal:", "unable", "to", "access",
           "url:", "Could", "not", "resolve", "host:", "host">>

DeniedMsg == <<"exit", "status", "128", "-", "fatal:", "Authentication", "failed">>

\* the error of a network primitive under a mode other than "up"
NetError(prim, transport, mode) ==
    errorsNew(IF mode = "dnsfail" THEN ResolveMsg(transport) ELSE DeniedMsg,
              "git:" \o prim)

Call(op) == [op |-> op, depth |-> 0, branch |-> ""]

\* the source directory: absent, a plain folder, or a repository with its
\* origin ("" for none), the version checked out, whether its history
\* conflicts with the remote's, and whether its configuration is unreadable
Absent ==
    [kind |-> "absent", origin |-> "", ver |-> 0, diverged |-> FALSE, corrupt |-> FALSE]
PlainFolder ==
    [kind |-> "plain", origin |-> "", ver |-> 0, diverged |-> FALSE, corrupt |-> FALSE]
Repos ==
    [kind : {"repo"}, origin : Urls, ver : 0..MaxVer, diverged : BOOLEAN,
     corrupt : BOOLEAN]
LocalStates == {Absent, PlainFolder} \cup Repos

\* the world around one setSource call: filepath.Abs works, the git
\* executable is there, the network as clone and fetch find it and as pull
\* finds it, and the tip of the remote
Envs ==
    [abs : BOOLEAN, git : BOOLEAN, net : NetModes, netPull : NetModes,
     remoteVer : 1..MaxVer]

\* the error of any primitive when the git executable is missing
GitMissing(prim) ==
    errorsNew(<<"exec:", "git:", "executable", "file", "not", "found">>, "git:" \o prim)

\* git.Open: the path must resolve and be a directory
gitOpen(loc, env) ==
    IF ~env.abs THEN errorsNew(<<"getwd:", "no", "such", "file">>, "abs")
    ELSE IF loc.kind = "absent"
    THEN errorsNew(<<"file", "does", "not", "exist">>, "os.ErrNotExist")
    ELSE NoError

\* options of the clone request (none are passed: full history, all branches)
cloneOptions == [depth |-> 0, branch |-> ""]

\* git.Clone(url, dir): on success the directory is a repository at the
\* remote's tip with url as origin
gitClone_StaleBranch(url, loc, env) ==
    IF ~env.git THEN [err |-> GitMissing("clone"), local |-> loc]
    ELSE IF env.net = "up"
    THEN [err |-> NoError,
          local |-> [kind |-> "repo", origin |-> url, ver |-> 1,
                     diverged |-> FALSE, corrupt |-> FALSE]]
    ELSE [err |-> NetError("clone", Transport(url), env.net), local |-> loc]

gitClone(url, loc, env) ==
    IF ~env.git THEN [err |-> GitMissing("clone"), local |-> loc]
    ELSE IF env.net = "up"
    THEN [err |-> NoError,
          local |-> [kind |-> "repo", origin |-> url, ver |-> env.remoteVer,
                     diverged |-> FALSE, corrupt |-> FALSE]]
    ELSE [err |-> NetError("clone", Transport(url), env.net), local |-> loc]

\* g.RemoteGetURL("origin")
RemoteGetURL(loc, env) ==
    IF ~env.git THEN GitMissing("remote")
    ELSE IF loc.corrupt
    THEN errorsNew(<<"exit", "status", "128", "-", "fatal:", "bad", "config",
                     "line", "1", "in", "file", ".git/config">>, "git:remote")
    ELSE IF loc.kind = "plain"
    THEN errorsNew(<<"exit", "status", "128", "-", "fatal:", "not", "a", "git",
                     "repository", "(or", "any", "of", "the", "parent",
                     "directories):", ".git">>, "git:remote")
    ELSE IF loc.origin = ""
    THEN errorsNew(<<"exit", "status", "2", "-", "error:", "No", "such",
                     "remote", "'origin'">>, "git:remote")
    ELSE NoError

\* g.Fetch(): the working copy stays as it is
gitFetch(loc, env) ==
    IF ~env.git THEN GitMissing("fetch")
    ELSE IF env.net = "up" THEN NoError
    ELSE NetError("fetch", Transport(loc.origin), env.net)

\* g.Pull(): brings the working copy to the remote's tip, unless the local
\* history conflicts with it
gitPull(loc, env) ==
    IF ~env.git THEN [err |-> GitMissing("pull"), local |-> loc]
    ELSE IF env.netPull # "up"
    THEN [err |-> NetError("pull", Transport(loc.origin), env.netPull), local |-> loc]
    ELSE IF loc.ver >= env.remoteVer
    THEN [err |-> NoError, local |-> loc]
    ELSE IF loc.diverged
    THEN [err |-> errorsNew(<<"exit", "status", "1", "-", "CONFLICT">>, "git:pull"),
          local |-> loc]
    ELSE [err |-> NoError, local |-> [loc EXCEPT !.ver = env.remoteVer]]

Warning == "Could not connect to remote repository."

NotFoundError ==
    errorsNew(<<"source", "directory", "not", "found:", "dir">>, "new:not found")

\* strings.Contains(err.Error(), "ssh: Could not resolve hostname")
isUnresolved(e) == Contains(e.msg, <<"ssh:", "Could", "not", "resolve", "hostname">>)

\* the lookup errors setSource takes for "nothing to synchronise"
lookupSwallowed_Any(e) == TRUE
lookupSwallowed_RemoteOnly(e) == Contains(e.msg, <<"No", "such", "remote">>)
lookupSwallowed(e) ==
    \/ Contains(e.msg, <<"not", "a", "git", "repository">>)
    \/ Contains(e.msg, <<"No", "such", "remote">>)

SyncReturn(e, out, cs, loc) == [err |-> e, stdout |-> out, calls |-> cs, local |-> loc]

\* the branch of setSource taken when git.Open failed with e
setSourceMissing(c, loc, env, e, cs) ==
    IF ~errorsIs(e, "os.ErrNotExist") THEN SyncReturn(e, <<>>, cs, loc)
    ELSE IF c.SourceRepo = "" THEN SyncReturn(NotFoundError, <<>>, cs, loc)
    ELSE LET cl == gitClone(c.SourceRepo, loc, env)
             cs2 == Append(cs, [op |-> "Clone", depth |-> cloneOptions.depth,
                                branch |-> cloneOptions.branch])
         IN  IF cl.err # NoError
             THEN IF isUnresolved(cl.err)
                  THEN SyncReturn(NotFoundError, <<Warning>>, cs2, cl.local)
                  ELSE SyncReturn(cl.err, <<>>, cs2, cl.local)
             ELSE SyncReturn(NoError, <<>>, cs2, cl.local)

\* the branch of setSource taken when git.Open succeeded
setSourceExisting(c, loc, env, cs) ==
    LET lk == RemoteGetURL(loc, env)
        cs2 == Append(cs, Call("RemoteGetURL"))
        fe == gitFetch(loc, env)
        cs3 == Append(cs2, Call("Fetch"))
        pl == gitPull(loc, env)
        cs4 == Append(cs3, Call("Pull"))
    IN  IF lk = NoError
        THEN IF fe # NoError
             THEN IF isUnresolved(fe)
                  THEN SyncReturn(NoError, <<Warning>>, cs3, loc)
                  ELSE SyncReturn(fe, <<>>, cs3, loc)
             ELSE IF pl.err # NoError
                  THEN SyncReturn(pl.err, <<>>, cs4, pl.local)
                  ELSE SyncReturn(NoError, <<>>, cs4, pl.local)
        ELSE IF ~lookupSwallowed(lk)
             THEN SyncReturn(lk, <<>>, cs2, loc)
             ELSE SyncReturn(NoError, <<>>, cs2, loc)

setSource(c, loc, env) ==
    IF c.SourceDir = ""
    THEN SyncReturn(errorsNew(<<"source", "directory", "is", "required">>,
                              "new:dir required"), <<>>, <<>>, loc)
    ELSE LET e == gitOpen(loc, env)
             cs == <<Call("Open")>>
         IN  IF e # NoError
             THEN setSourceMissing(c, loc, env, e, cs)
             ELSE setSourceExisting(c, loc, env, cs)

-----------------------------------------------------------------------------
(* main.go: addFeature and list *)

Event(op) == Call(op)

\* the file-system step of addFeature that fails, if any
FsFailures == {"none", "Abs", "ArchetypesFolder", "ArchetypeFolder", "Stat",
               "IsDir", "ReadFile"}

RunReturn(e, out, cs, got) == [err |-> e, stdout |-> out, calls |-> cs, probe |-> got]

\* the check that keeps addFeature from generating into a dirty repository
refuseDirty_Never(gs) == FALSE
refuseDirty(gs) == gs.Dirty

fsErr(step) == errorsNew(<<"stat:", "no", "such", "file">>, "fs:" \o step)

\* the steps of addFeature, given the failing file-system step (fsFail), what
\* gitstat.Get returns when called (g) and whether the generator succeeds
addFeatureSteps(c, fsFail, g, genOk) ==
    LET none == GetReturn(FALSE, ZeroStatus, NoError, <<>>)
        line1 == "Adding feature using archetype."
        line2 == "Using transformation file."
        line3 == "Feature added."
        cGet == <<Event("Get")>>
        cGot == Append(cGet, Event(IF g.err # NoError THEN "Get:error"
                                   ELSE IF g.status.Dirty THEN "Get:dirty"
                                   ELSE "Get:clean"))
        cGen == Append(cGot, Event("OverlayGenerate"))
    IN  IF fsFail = "Abs" THEN RunReturn(fsErr("Abs"), <<>>, <<>>, none)
        ELSE IF c.SourceDir = ""
        THEN RunReturn(errorsNew(<<"undefined", "dir">>, "new:undefined dir"), <<>>, <<>>, none)
        ELSE IF c.ArchetypesFolder = ""
        THEN RunReturn(errorsNew(<<"undefined", "archetypes">>, "new:undefined archetypes"),
                       <<>>, <<>>, none)
        ELSE IF fsFail = "ArchetypesFolder"
        THEN RunReturn(fsErr("ArchetypesFolder"), <<>>, <<>>, none)
        ELSE IF c.Archetype = ""
        THEN RunReturn(errorsNew(<<"undefined", "archetype">>, "new:undefined archetype"),
                       <<>>, <<>>, none)
        ELSE IF fsFail = "ArchetypeFolder"
        THEN RunReturn(fsErr("ArchetypeFolder"), <<>>, <<>>, none)
        ELSE IF c.Transformation = ""
        THEN RunReturn(errorsNew(<<"undefined", "transformation">>,
                                 "new:undefined transformation"), <<>>, <<>>, none)
        ELSE IF fsFail = "Stat" THEN RunReturn(fsErr("Stat"), <<line1>>, <<>>, none)
        ELSE IF fsFail = "IsDir"
        THEN RunReturn(errorsNew(<<"invalid", "transformation", "file:", "tf">>,
                                 "new:invalid transformation"), <<line1>>, <<>>, none)
        ELSE IF g.err # NoError THEN RunReturn(g.err, <<line1, line2>>, cGot, g)
        ELSE IF refuseDirty(g.status)
        THEN RunReturn(errorsNew(<<"git", "repository", "is", "dirty">>, "new:dirty"),
                       <<line1, line2>>, cGot, g)
        ELSE IF fsFail = "ReadFile" THEN RunReturn(fsErr("ReadFile"), <<line1, line2>>, cGot, g)
        ELSE IF ~genOk
        THEN RunReturn(errorsNew(<<"generation", "failed">>, "generator"),
                       <<line1, line2>>, cGen, g)
        ELSE RunReturn(NoError, <<line1, line2, line3>>, cGen, g)

\* addFeature, given the answers of Get's primitives (p)
addFeature(c, fsFail, p, genOk) == addFeatureSteps(c, fsFail, Get(p), genOk)

-----------------------------------------------------------------------------
(* Values of the variables a specification does not use *)

NoSync == [called |-> FALSE]
NoProbeIn == [abs |-> FALSE]
NoProbeOut == GetReturn(FALSE, ZeroStatus, NoError, <<>>)
NoParseIn == [tag |-> <<>>, n |-> <<>>, h |-> <<>>, line |-> <<>>]
NoParseOut == [ok |-> FALSE, d |-> ZeroDescription, err |-> NoError]
NoLocal == Absent
NoConfig ==
    [FeatureName |-> "", Archetype |-> "", Transformation |-> "",
     ArchetypesFolder |-> "", SourceDir |-> "", SourceRepo |-> ""]

IdleRun ==
    /\ cmd = "none" /\ cfg = NoConfig /\ local = NoLocal
    /\ calls = <<>> /\ stdout = <<>> /\ err = NoError
IdleSync == sync1 = NoSync /\ sync2 = NoSync
IdleProbe == probeIn = NoProbeIn /\ probeOut = NoProbeOut
IdleParse == parseIn = NoParseIn /\ parseOut = NoParseOut

runVars == <<cmd, cfg, local, calls, stdout, err>>
syncVars == <<sync1, sync2>>
probeVars == <<probeIn, probeOut>>
parseVars == <<parseIn, parseOut>>

-----------------------------------------------------------------------------
(* parseDescription applied to describe lines tag-N-g<hex> *)

TagAlphabet == {"v", "-", "1"}
DigitAlphabet == {"0", "1", "9"}
HexAlphabet == {"a", "1"}

\* tags holding a -<digits>-g<hex> fragment, and one shaped like v1-rc-1
TagSamples == {<<"v", "-", "1", "-", "g", "a">>, <<"v", "1", "-", "r", "c", "-", "1">>}

\* numerals beyond math.MaxInt64, and a long numeral of small value
LongNumbers ==
    {<<"9", "2", "2", "3", "3", "7", "2", "0", "3", "6",
       "8", "5", "4", "7", "7", "5", "8", "0", "8">>,
     <<"0", "0", "0", "0", "0", "0", "0", "0", "0", "0",
       "0", "0", "0", "0", "0", "0", "0", "0", "0", "7">>}

Tags == Strs(TagAlphabet, 0, MaxTag) \cup TagSamples
Numbers == Strs(DigitAlphabet, 1, MaxDigits) \cup LongNumbers
Hexes == Strs(HexAlphabet, 1, MaxHex)

DescribeLine(tag, n, h) == tag \o <<"-">> \o n \o <<"-", "g">> \o h

InitParse ==
    /\ pc = "parse_ready"
    /\ \E tag \in Tags, n \in Numbers, h \in Hexes :
          parseIn = [tag |-> tag, n |-> n, h |-> h, line |-> DescribeLine(tag, n, h)]
    /\ parseOut = NoParseOut
    /\ IdleRun /\ IdleSync /\ IdleProbe

ParseLine ==
    /\ pc = "parse_ready"
    /\ parseOut' = parseDescription(parseIn.line)
    /\ pc' = "parse_done"
    /\ UNCHANGED <<parseIn, runVars, syncVars, probeVars>>

NextParse == ParseLine

SpecParse == InitParse /\ [][NextParse]_vars

-----------------------------------------------------------------------------
(* Get applied to the answers of its primitives *)

StatusAlphabet == {"SP", "LF", "CR", "M"}

BranchAnswers ==
    {ExecResult(FALSE, <<"m", "LF">>), ExecResult(FALSE, <<>>), ExecResult(TRUE, <<>>)}
HashAnswers ==
    {ExecResult(FALSE, <<"a", "b", "LF">>), ExecResult(FALSE, <<"LF">>), ExecResult(TRUE, <<>>)}
ShortAnswers ==
    {ExecResult(FALSE, <<"a", "LF">>), ExecResult(FALSE, <<>>), ExecResult(TRUE, <<>>)}
DateAnswers ==
    {ExecResult(FALSE, <<"2", "T", "1", "LF">>), ExecResult(FALSE, <<>>), ExecResult(TRUE, <<>>)}
StatusAnswers ==
    {ExecResult(f, o) : f \in BOOLEAN, o \in Strs(StatusAlphabet, 0, MaxOut)}
DescribeAnswers ==
    {ExecResult(FALSE, <<"v", "1", "-", "3", "-", "g", "a", "b", "LF">>),
     ExecResult(FALSE, <<"v", "1", "LF">>),
     ExecResult(FALSE, <<>>),
     ExecResult(TRUE, <<>>)}

ProbeInputs ==
    [abs : BOOLEAN, inside : BOOLEAN, branch : BranchAnswers, hash : HashAnswers,
     short : ShortAnswers, date : DateAnswers, status : StatusAnswers,
     describe : DescribeAnswers]

InitProbe ==
    /\ pc = "probe_ready"
    /\ probeIn \in ProbeInputs
    /\ probeOut = NoProbeOut
    /\ IdleRun /\ IdleSync /\ IdleParse

ProbeCall ==
    /\ pc = "probe_ready"
    /\ probeOut' = Get(probeIn)
    /\ pc' = "probe_done"
    /\ UNCHANGED <<probeIn, runVars, syncVars, parseVars>>

NextProbe == ProbeCall

SpecProbe == InitProbe /\ [][NextProbe]_vars

-----------------------------------------------------------------------------
(* Properties of Get (SpecProbe) *)

AllSpace(o) == \A k \in 1..Len(o) : o[k] \in Space

\* the primitive ran and printed something other than white space
Answered(r) == ~r.fail /\ ~AllSpace(r.out)

\* every mandatory step of Get went through: path, work tree, hash, short
\* hash, author date, and a status query that ran
MandatoryOk(p) ==
    /\ p.abs /\ p.inside
    /\ Answered(p.hash) /\ Answered(p.short) /\ Answered(p.date)
    /\ ~p.status.fail

\* C7: when every mandatory primitive succeeds and the describe primitive
\* fails (it exits with an error, or prints nothing), Get returns no error
\* and a Status whose Description is the zero value, while Hash, ShortHash,
\* AuthorDate, Branch and Dirty hold what the earlier steps read.
C7_DescribeFailureIsSilent ==
    (pc = "probe_done" /\ MandatoryOk(probeIn) /\ ~Answered(probeIn.describe))
    => /\ probeOut.err = NoError
       /\ probeOut.has
       /\ probeOut.status.Description = ZeroDescription
       /\ probeOut.status.Hash = TrimSpace(probeIn.hash.out)
       /\ probeOut.status.ShortHash = TrimSpace(probeIn.short.out)
       /\ probeOut.status.AuthorDate = TrimSpace(probeIn.date.out)
       /\ probeOut.status.Branch =
             (IF Answered(probeIn.branch) THEN TrimSpace(probeIn.branch.out) ELSE <<>>)
       /\ probeOut.status.Dirty = ~AllSpace(probeIn.status.out)

C7_Witness ==
    /\ pc = "probe_done" /\ MandatoryOk(probeIn)
    /\ probeIn.describe.fail
    /\ probeOut.has /\ probeOut.err = NoError
    /\ probeOut.status.Hash # <<>> /\ probeOut.status.Branch # <<>>
    /\ probeOut.status.Dirty

\* Get reached its status query, the query ran, and Get returned a Status
StatusQueried == pc = "probe_done" /\ probeOut.has /\ ~probeIn.status.fail

\* C8 as stated: dirty = false exactly when the raw output of a successful
\* status query is "", "\n" or "\r\n", and dirty = true for every other
\* output, white space included.
C8_Original ==
    StatusQueried
    => (probeOut.status.Dirty
        <=> probeIn.status.out \notin {<<>>, <<"LF">>, <<"CR", "LF">>})

\* C8 amended: dirty = false exactly when the raw output of a successful
\* status query holds nothing but white space, and dirty = true exactly when
\* it holds a character that is not white space.
C8_DirtyIffNotAllSpace ==
    StatusQueried => (probeOut.status.Dirty <=> ~AllSpace(probeIn.status.out))

C8_Witness ==
    /\ StatusQueried
    /\ probeIn.status.out = <<"LF", "SP">>
    /\ ~probeOut.status.Dirty

\* the step of Get that produced its error: the last primitive it ran
FailedStep == probeOut.calls[Len(probeOut.calls)]

\* the failure of the underlying primitive at that step
OriginalFailure ==
    CASE FailedStep = "Abs" -> "abs"
      [] FailedStep = "is-inside-work-tree" -> "exec:is-inside-work-tree"
      [] FailedStep = "rev-parse" ->
            IF probeIn.hash.fail THEN "exec:rev-parse" ELSE "errEmptyOutput"
      [] FailedStep = "rev-parse-short" ->
            IF probeIn.short.fail THEN "exec:rev-parse-short" ELSE "errEmptyOutput"
      [] FailedStep = "log" ->
            IF probeIn.date.fail THEN "exec:log" ELSE "errEmptyOutput"
      [] FailedStep = "status" -> "exec:status"
      [] FailedStep = "describe" -> "parse"

Count(seq, x) == Cardinality({i \in 1..Len(seq) : seq[i] = x})

\* the error carries the repository-status prefix once, as its outermost layer
WrappedOnce(e) ==
    /\ Len(e.chain) >= 2
    /\ e.chain[1] = "wrap:gitstat"
    /\ Count(e.chain, "wrap:gitstat") = 1
    /\ Len(e.msg) > Len(StatusPrefix)
    /\ SubSeq(e.msg, 1, Len(StatusPrefix)) = StatusPrefix
    /\ ~Contains(SubSeq(e.msg, Len(StatusPrefix) + 1, Len(e.msg)), StatusPrefix)

ProbeFailed == pc = "probe_done" /\ probeOut.err # NoError

\* C10 as stated: every error Get returns, whichever step produced it, is
\* wrapped exactly once with the prefix and keeps the original failure of the
\* underlying primitive in its cause chain.
C10_Original ==
    ProbeFailed
    => WrappedOnce(probeOut.err) /\ errorsIs(probeOut.err, OriginalFailure)

\* C10 amended: every error Get returns is wrapped exactly once with the
\* prefix; it keeps the original failure of the underlying primitive in its
\* cause chain at every step but the work-tree check, where the primitive's
\* failure is replaced by a new "not inside a git repository" error.
C10_WrappedOnceCauseKept ==
    ProbeFailed
    => /\ WrappedOnce(probeOut.err)
       /\ IF FailedStep = "is-inside-work-tree"
          THEN probeOut.err.chain = <<"wrap:gitstat", "new:not inside">>
          ELSE errorsIs(probeOut.err, OriginalFailure)

C10_Witness ==
    /\ ProbeFailed
    /\ FailedStep = "is-inside-work-tree"
    /\ ~errorsIs(probeOut.err, "exec:is-inside-work-tree")
    /\ WrappedOnce(probeOut.err)

ProbeSteps ==
    <<"Abs", "is-inside-work-tree", "branch", "rev-parse", "rev-parse-short",
      "log", "status", "describe">>

\* the step at which the answers p make Get give up (0 when none does): path
\* resolution, work-tree check, hash, short hash, author date, status query
AbortStep(p) ==
    IF ~p.abs THEN 1
    ELSE IF ~p.inside THEN 2
    ELSE IF ~Answered(p.hash) THEN 4
    ELSE IF ~Answered(p.short) THEN 5
    ELSE IF ~Answered(p.date) THEN 6
    ELSE IF p.status.fail THEN 7
    ELSE 0

\* C13: Get returns a Status only if the work-tree check, the hash, short
\* hash and author date queries all succeeded with non-empty output and the
\* status query succeeded or failed only with empty output; a failure of any
\* of these steps (an empty output of hash, short hash or author date
\* included) aborts Get at that step with an error and no Status, no later
\* primitive being executed; a branch-lookup failure alone never aborts Get
\* and only leaves Branch empty.
C13_MandatoryStepsAbort ==
    pc = "probe_done"
    => /\ probeOut.has
          => /\ probeIn.inside
             /\ \A r \in {probeIn.hash, probeIn.short, probeIn.date} :
                   ~r.fail /\ r.out # <<>>
             /\ ~probeIn.status.fail
             /\ AbortStep(probeIn) = 0
       /\ AbortStep(probeIn) # 0
          => /\ ~probeOut.has
             /\ probeOut.err # NoError
             /\ probeOut.calls = SubSeq(ProbeSteps, 1, AbortStep(probeIn))
       /\ (AbortStep(probeIn) = 0 /\ ~Answered(probeIn.branch))
          => /\ probeOut.has
             /\ probeOut.status.Branch = <<>>
             /\ probeOut.calls = ProbeSteps
             /\ probeOut.status.Hash = TrimSpace(probeIn.hash.out)

C13_Witness ==
    /\ pc = "probe_done"
    /\ probeIn.abs /\ probeIn.inside
    /\ ~probeIn.hash.fail /\ probeIn.hash.out = <<"LF">>
    /\ ~probeOut.has /\ probeOut.err # NoError
    /\ probeOut.calls = SubSeq(ProbeSteps, 1, 4)
    /\ probeIn.branch.fail

-----------------------------------------------------------------------------
(* Properties of parseDescription (SpecParse) *)

DigitChar(k) ==
    CASE k = 0 -> "0" [] k = 1 -> "1" [] k = 2 -> "2" [] k = 3 -> "3"
      [] k = 4 -> "4" [] k = 5 -> "5" [] k = 6 -> "6" [] k = 7 -> "7"
      [] k = 8 -> "8" [] k = 9 -> "9"

\* the decimal numeral of n >= 0
RECURSIVE Numeral(_)
Numeral(n) == IF n < 10 THEN <<DigitChar(n)>> ELSE Append(Numeral(n \div 10), DigitChar(n % 10))

\* the describe line rebuilt from the three parsed fields
Rebuild(d) == DescribeLine(d.Tag, Numeral(d.AdditionalCommits), d.ShortHash)

\* n is the numeral of its value: a single 0, or no leading 0
Canonical(n) == Len(n) = 1 \/ n[1] # "0"

\* the value of n is at most math.MaxInt64
FitsInt(n) ==
    LET t == StripZeros(n)
    IN  \/ Len(t) < Len(MaxIntDigits)
        \/ (Len(t) = Len(MaxIntDigits) /\ ~DigitsGreater(t, MaxIntDigits))

Parsed == pc = "parse_done"

FieldsExact ==
    /\ parseOut.ok
    /\ parseOut.d.Tag = parseIn.tag
    /\ parseOut.d.AdditionalCommits = DigitsValue(parseIn.n)
    /\ parseOut.d.ShortHash = parseIn.h

\* C9 as stated: for every tag, every digit string N and every hex string h,
\* parsing tag-N-g<h> succeeds with Tag = tag, AdditionalCommits = value of N,
\* ShortHash = h, and the line rebuilt from the three fields is the line.
C9_Original == Parsed => (FieldsExact /\ Rebuild(parseOut.d) = parseIn.line)

\* C9 amended: for every tag, every hex string h and every digit string N
\* whose value fits an int, parsing tag-N-g<h> succeeds with Tag = tag,
\* AdditionalCommits = value of N, ShortHash = h; the line rebuilt from the
\* three fields is the line exactly when N has no leading zeros; when the
\* value of N does not fit an int, parsing fails.
C9_ParseSplitsOnLastSuffix ==
    Parsed
    => IF FitsInt(parseIn.n)
       THEN /\ FieldsExact
            /\ (Rebuild(parseOut.d) = parseIn.line <=> Canonical(parseIn.n))
       ELSE ~parseOut.ok

C9_Witness ==
    /\ Parsed
    /\ parseIn.tag = <<"v", "-", "1", "-", "g", "a">>
    /\ Canonical(parseIn.n)
    /\ FieldsExact
    /\ Rebuild(parseOut.d) = parseIn.line

-----------------------------------------------------------------------------
(* setSource called twice in a row on the same directory (SpecSync) *)

SyncConfigs ==
    {[NoConfig EXCEPT !.SourceDir = d, !.SourceRepo = r] :
        d \in {"", "dir"}, r \in Urls}

InitSync ==
    /\ pc = "sync_ready"
    /\ cmd = "none"
    /\ cfg \in SyncConfigs
    /\ local \in LocalStates
    /\ calls = <<>> /\ stdout = <<>> /\ err = NoError
    /\ IdleSync /\ IdleProbe /\ IdleParse

SyncFirst ==
    /\ pc = "sync_ready"
    /\ \E env \in Envs :
          LET r == setSource(cfg, local, env)
          IN  /\ sync1' = [called |-> TRUE, env |-> env, before |-> local, ret |-> r]
              /\ local' = r.local
              /\ calls' = calls \o r.calls
              /\ stdout' = stdout \o r.stdout
              /\ err' = r.err
    /\ pc' = "sync_once"
    /\ UNCHANGED <<cmd, cfg, sync2, probeVars, parseVars>>

\* the same call again, the world around it unchanged
SyncSecond ==
    /\ pc = "sync_once"
    /\ LET r == setSource(cfg, local, sync1.env)
       IN  /\ sync2' = [called |-> TRUE, env |-> sync1.env, before |-> local, ret |-> r]
           /\ local' = r.local
           /\ calls' = calls \o r.calls
           /\ stdout' = stdout \o r.stdout
           /\ err' = r.err
    /\ pc' = "sync_twice"
    /\ UNCHANGED <<cmd, cfg, sync1, probeVars, parseVars>>

NextSync == SyncFirst \/ SyncSecond

SpecSync == InitSync /\ [][NextSync]_vars

-----------------------------------------------------------------------------
(* One invocation of the command line: run (Spec) *)

Commands == {"add", "list", "environment", "help"}

RunConfigs ==
    [FeatureName : {"", "feat"}, Archetype : {"", "hello-world"},
     Transformation : {"", "default"}, ArchetypesFolder : {"archetypes"},
     SourceDir : {"", "dir"}, SourceRepo : Urls]

\* answers of Get's primitives as the invocation meets them
RunProbeInputs ==
    [abs : BOOLEAN, inside : BOOLEAN,
     branch : {ExecResult(FALSE, <<"m", "LF">>)},
     hash : {ExecResult(FALSE, <<"a", "b", "LF">>), ExecResult(TRUE, <<>>)},
     short : {ExecResult(FALSE, <<"a", "LF">>)},
     date : {ExecResult(FALSE, <<"2", "T", "1", "LF">>)},
     status : {ExecResult(FALSE, <<>>), ExecResult(FALSE, <<"LF">>),
               ExecResult(FALSE, <<"SP", "M", "SP", "f", "LF">>), ExecResult(TRUE, <<>>)},
     describe : {ExecResult(FALSE, <<"v", "1", "-", "3", "-", "g", "a", "b", "LF">>),
                 ExecResult(FALSE, <<"v", "1", "LF">>), ExecResult(TRUE, <<>>)}]

Init ==
    /\ pc = "start"
    /\ cmd \in Commands
    /\ cfg \in RunConfigs
    /\ local \in LocalStates
    /\ calls = <<>> /\ stdout = <<>> /\ err = NoError
    /\ IdleSync /\ IdleProbe /\ IdleParse

\* the error run returns when argument checks fail (multierr of the messages)
ArgsError(c) ==
    errorsNew((IF c.Archetype = "" THEN <<"archetype", "is", "required;">> ELSE <<>>)
              \o (IF c.SourceDir = "" THEN <<"source", "directory", "is", "required">> ELSE <<>>),
              "multierr")

\* add: go.mod must exist, then setSource
AddSync ==
    /\ pc = "start" /\ cmd = "add"
    /\ \E gomod \in BOOLEAN, env \in Envs :
          IF ~gomod
          THEN /\ err' = errorsNew(<<"go.mod", "file", "not", "found">>, "new:go.mod")
               /\ pc' = "exit"
               /\ UNCHANGED <<local, calls, stdout>>
          ELSE LET r == setSource(cfg, local, env)
               IN  /\ local' = r.local
                   /\ calls' = calls \o <<Event("setSource")>> \o r.calls
                                \o <<Event(IF r.err = NoError THEN "setSource:ok"
                                           ELSE "setSource:error")>>
                   /\ stdout' = stdout \o r.stdout
                   /\ err' = r.err
                   /\ pc' = IF r.err = NoError THEN "synced" ELSE "exit"
    /\ UNCHANGED <<cmd, cfg, syncVars, probeVars, parseVars>>

\* add: the argument checks between setSource and addFeature
AddValidate ==
    /\ pc = "synced"
    /\ IF cfg.Archetype = "" \/ cfg.SourceDir = ""
       THEN /\ err' = ArgsError(cfg)
            /\ pc' = "exit"
            /\ cfg' = [cfg EXCEPT !.FeatureName =
                          IF cfg.FeatureName = "" THEN cfg.Archetype ELSE cfg.FeatureName]
       ELSE /\ err' = NoError
            /\ pc' = "validated"
            /\ cfg' = [cfg EXCEPT !.FeatureName =
                          IF cfg.FeatureName = "" THEN cfg.Archetype ELSE cfg.FeatureName]
    /\ UNCHANGED <<cmd, local, calls, stdout, syncVars, probeVars, parseVars>>

\* add: addFeature
AddFeature ==
    /\ pc = "validated"
    /\ \E fsFail \in FsFailures, p \in RunProbeInputs, genOk \in BOOLEAN :
          LET r == addFeature(cfg, fsFail, p, genOk)
          IN  /\ calls' = calls \o r.calls
              /\ stdout' = stdout \o r.stdout
              /\ err' = r.err
              /\ probeOut' = r.probe
    /\ pc' = "exit"
    /\ UNCHANGED <<cmd, cfg, local, syncVars, probeIn, parseVars>>

\* list: setSource, the argument check, then the listing
ListRun ==
    /\ pc = "start" /\ cmd = "list"
    /\ \E env \in Envs, listOk \in BOOLEAN :
          LET r == setSource(cfg, local, env)
          IN  /\ local' = r.local
              /\ calls' = calls \o <<Event("setSource")>> \o r.calls
                           \o <<Event(IF r.err = NoError THEN "setSource:ok"
                                      ELSE "setSource:error")>>
                           \o (IF r.err = NoError THEN <<Event("list")>> ELSE <<>>)
              /\ stdout' = stdout \o r.stdout
              /\ err' = IF r.err # NoError THEN r.err
                        ELSE IF listOk THEN NoError
                        ELSE errorsNew(<<"stat:", "no", "such", "file">>, "fs:list")
    /\ pc' = "exit"
    /\ UNCHANGED <<cmd, cfg, syncVars, probeVars, parseVars>>

\* environment: the names of the environment variables
EnvironmentRun ==
    /\ pc = "start" /\ cmd = "environment"
    /\ stdout' = stdout \o <<"GARCHETYPE_ARCHETYPE", "GARCHETYPE_ARCHETYPES_FOLDER",
                             "GARCHETYPE_ENV", "GARCHETYPE_SOURCE_DIR",
                             "GARCHETYPE_SOURCE_REPO", "GARCHETYPE_TRANSFORMATION",
                             "GARCHETYPE_VERBOSE">>
    /\ err' = NoError
    /\ pc' = "exit"
    /\ UNCHANGED <<cmd, cfg, local, calls, syncVars, probeVars, parseVars>>

\* no sub-command: the help text
HelpRun ==
    /\ pc = "start" /\ cmd = "help"
    /\ stdout' = stdout \o <<"help">>
    /\ err' = NoError
    /\ pc' = "exit"
    /\ UNCHANGED <<cmd, cfg, local, calls, syncVars, probeVars, parseVars>>

Next == AddSync \/ AddValidate \/ AddFeature \/ ListRun \/ EnvironmentRun \/ HelpRun

Spec == Init /\ [][Next]_vars

-----------------------------------------------------------------------------
(* Properties of setSource (SpecSync) *)

Called == pc \in {"sync_once", "sync_twice"}

\* the last primitive a setSource call executed ("" when it executed none)
LastOp(r) == IF Len(r.calls) = 0 THEN "" ELSE r.calls[Len(r.calls)].op

Executed(r, op) == \E i \in 1..Len(r.calls) : r.calls[i].op = op

\* the first call cloned into an absent directory and the clone could not
\* resolve the remote's host name
CloneUnresolved ==
    /\ Called
    /\ sync1.before.kind = "absent" /\ cfg.SourceRepo # ""
    /\ LastOp(sync1.ret) = "Clone"
    /\ sync1.env.git /\ sync1.env.net = "dnsfail"

\* the first call fetched in a repository with an origin and the fetch could
\* not resolve the remote's host name
FetchUnresolved ==
    /\ Called
    /\ sync1.before.kind = "repo" /\ sync1.before.origin # ""
    /\ LastOp(sync1.ret) = "Fetch"
    /\ sync1.env.git /\ sync1.env.net = "dnsfail"

\* C1: an unresolved host name is fatal or not by the local state alone: on
\* an absent directory with a remote URL, a clone that cannot resolve the
\* host makes setSource print the warning and return "source directory not
\* found"; on a repository with an origin, a fetch that cannot resolve the
\* host makes setSource print the same warning and return success.
C1_Claim ==
    /\ CloneUnresolved
       => (sync1.ret.stdout = <<Warning>> /\ sync1.ret.err = NotFoundError)
    /\ FetchUnresolved
       => (sync1.ret.stdout = <<Warning>> /\ sync1.ret.err = NoError)

NoTransfer(r) == ~Executed(r, "Clone") /\ ~Executed(r, "Fetch") /\ ~Executed(r, "Pull")

\* the first call found no git repository and was given no remote URL
NotARepoNoRemote ==
    /\ Called
    /\ cfg.SourceDir # "" /\ cfg.SourceRepo = ""
    /\ sync1.before.kind \in {"absent", "plain"}

C3_Claim ==
    Called
    => \A i \in 1..Len(sync1.ret.calls) :
          sync1.ret.calls[i].op = "Clone"
          => (sync1.ret.calls[i].depth = 1 /\ sync1.ret.calls[i].branch # "")

\* the remote answers clone, fetch and pull alike
Steady(env) == env.net = env.netPull

HitUnresolved ==
    /\ Called
    /\ sync1.env.git
    /\ \/ (LastOp(sync1.ret) \in {"Clone", "Fetch"} /\ sync1.env.net = "dnsfail")
       \/ (LastOp(sync1.ret) = "Pull" /\ sync1.env.netPull = "dnsfail")

\* C5: a host-name-resolution failure of clone, fetch or pull is never
\* returned raw: the outcome is the warning followed by the "source directory
\* not found" error or by success.
C5_Claim ==
    HitUnresolved
    => /\ sync1.ret.stdout = <<Warning>>
       /\ sync1.ret.err \in {NotFoundError, NoError}

\* the first call found the source directory existing: git.Open succeeded
ExistingRun ==
    /\ Called
    /\ cfg.SourceDir # ""
    /\ gitOpen(sync1.before, sync1.env) = NoError

\* position of a primitive in a call's log (0 when it was not executed)
Pos(r, op) ==
    IF Executed(r, op)
    THEN CHOOSE i \in 1..Len(r.calls) : r.calls[i].op = op
    ELSE 0

\* C11: on an existing directory, fetch is executed only after the origin
\* lookup succeeded and pull only after the fetch of the same call
\* succeeded; when fetch fails because the host name cannot be resolved,
\* setSource returns success having executed neither pull nor clone, and the
\* working copy is left as it was.
C11_Claim ==
    ExistingRun
    => /\ Executed(sync1.ret, "Fetch")
          => /\ RemoteGetURL(sync1.before, sync1.env) = NoError
             /\ 0 < Pos(sync1.ret, "RemoteGetURL")
             /\ Pos(sync1.ret, "RemoteGetURL") < Pos(sync1.ret, "Fetch")
       /\ Executed(sync1.ret, "Pull")
          => /\ gitFetch(sync1.before, sync1.env) = NoError
             /\ 0 < Pos(sync1.ret, "Fetch")
             /\ Pos(sync1.ret, "Fetch") < Pos(sync1.ret, "Pull")
       /\ FetchUnresolved
          => /\ sync1.ret.err = NoError
             /\ ~Executed(sync1.ret, "Pull") /\ ~Executed(sync1.ret, "Clone")
             /\ sync1.ret.local = sync1.before

\* the first call found the directory existing and its origin lookup failed
LookupFailed ==
    /\ ExistingRun
    /\ RemoteGetURL(sync1.before, sync1.env) # NoError

\* C12: when the directory exists and the origin lookup fails, the outcome
\* depends only on the kind of failure: a "not a git repository" or "No such
\* remote" failure makes setSource return success, any other lookup failure
\* is returned unchanged; in both cases no fetch, pull or clone is executed
\* and the directory is left as it was.
C12_LookupFailureByKind ==
    LookupFailed
    => LET lk == RemoteGetURL(sync1.before, sync1.env)
       IN  /\ NoTransfer(sync1.ret)
           /\ LastOp(sync1.ret) = "RemoteGetURL"
           /\ sync1.ret.local = sync1.before
           /\ sync1.ret.stdout = <<>>
           /\ IF \/ Contains(lk.msg, <<"not", "a", "git", "repository">>)
                 \/ Contains(lk.msg, <<"No", "such", "remote">>)
              THEN sync1.ret.err = NoError
              ELSE sync1.ret.err = lk

C12_Witness ==
    /\ LookupFailed
    /\ sync1.before.kind = "repo" /\ sync1.before.corrupt /\ sync1.env.git
    /\ LastOp(sync1.ret) = "RemoteGetURL"
    /\ sync1.ret.err = RemoteGetURL(sync1.before, sync1.env)
    /\ sync1.ret.err # NoError

-----------------------------------------------------------------------------
(* Properties of run (Spec) *)

Ops == [i \in 1..Len(calls) |-> calls[i].op]

Happened(op) == \E i \in 1..Len(calls) : Ops[i] = op

====
